---- MODULE Spec2Model ----
(***************************************************************************)
(* External Messages HTTP endpoint for Telegram (synthetic-update          *)
(* generation): the account registry, the synthetic update counter and     *)
(* handleExternalMessagesRequest, with its two suspension points (the body *)
(* read and the awaited bot.handleUpdate call) as separate steps.          *)
(*                                                                         *)
(* Strings the code slices or trims are sequences of one-character         *)
(* strings; strings the code only compares or emits are TLA+ strings.      *)
(* A JSON / JavaScript value is a record [t, n, s]: its type tag, its      *)
(* number when it is a number, its characters when it is a string.         *)
(***************************************************************************)
EXTENDS Integers, Sequences, FiniteSets, TLC

VARIABLES
  botRegistry,             \* Map<string, Bot>: account id -> bot handle
  configRegistry,          \* Map<string, ExternalMessagesConfig>
  syntheticUpdateCounter,  \* next synthetic update id
  sessions,                \* the callers' bot lifecycle per account (start/stop)
  req,                     \* per request: the IncomingMessage as the client sent it
  rd,                      \* per request: readJsonBody's closure state
  h,                       \* per request: the handler's frame (position and locals)
  res,                     \* per request: the ServerResponse
  calls,                   \* bot.handleUpdate calls, in the order they started
  loadedConfig,            \* the OpenClawConfig that loadConfig() returns
  resolved,                \* the latest resolveExternalMessagesConfig call
  extraCall,               \* the latest resolveExtraParams call
  legacyCalls              \* per account: the latest call of the old registration

vars == <<botRegistry, configRegistry, syntheticUpdateCounter, sessions,
          req, rd, h, res, calls, loadedConfig, resolved, extraCall,
          legacyCalls>>

(***************************************************************************)
(* Bounds                                                                  *)
(***************************************************************************)
NumReqs == 2      \* requests in flight together

Reqs == 1..NumReqs

(***************************************************************************)
(* JavaScript values                                                       *)
(***************************************************************************)
Undef == [t |-> "undefined", n |-> 0, s |-> <<>>]
Null == [t |-> "null", n |-> 0, s |-> <<>>]
Num(k) == [t |-> "number", n |-> k, s |-> <<>>]
Str(cs) == [t |-> "string", n |-> 0, s |-> cs]
Bool(b) == [t |-> "boolean", n |-> IF b THEN 1 ELSE 0, s |-> <<>>]
Arr == [t |-> "array", n |-> 0, s |-> <<>>]    \* the empty array []
Obj == [t |-> "object", n |-> 0, s |-> <<>>]   \* the empty object {}

\* v == null (loose): null or undefined
IsNullish(v) == v.t \in {"undefined", "null"}

\* typeof v
TypeOf(v) == IF v.t \in {"null", "array", "object"} THEN "object" ELSE v.t

\* !v for the values above
Falsy(v) ==
  \/ v.t \in {"undefined", "null"}
  \/ v.t = "number" /\ v.n = 0
  \/ v.t = "string" /\ v.s = <<>>
  \/ v.t = "boolean" /\ v.n = 0

WhiteSpace == {" ", "\t", "\n"}

RECURSIVE TrimStart(_)
TrimStart(cs) ==
  IF cs # <<>> /\ Head(cs) \in WhiteSpace THEN TrimStart(Tail(cs)) ELSE cs

RECURSIVE TrimEnd(_)
TrimEnd(cs) ==
  IF cs # <<>> /\ cs[Len(cs)] \in WhiteSpace
  THEN TrimEnd(SubSeq(cs, 1, Len(cs) - 1))
  ELSE cs

\* String.prototype.trim
Trim(cs) == TrimEnd(TrimStart(cs))

\* String.prototype.startsWith
StartsWith(cs, prefix) ==
  Len(cs) >= Len(prefix) /\ SubSeq(cs, 1, Len(prefix)) = prefix

\* String.prototype.slice(k) for 0 <= k
SliceFrom(cs, k) == SubSeq(cs, k + 1, Len(cs))

\* Map.prototype.get / set / delete on a function whose domain is the key set
MapGet(m, k, absent) == IF k \in DOMAIN m THEN m[k] ELSE absent
MapSetIfAbsent(m, k, v) ==
  [x \in DOMAIN m \cup {k} |-> IF x \in DOMAIN m THEN m[x] ELSE v]
MapSet(m, k, v) == [x \in DOMAIN m \cup {k} |-> IF x = k THEN v ELSE m[x]]
MapDeleteNoop(m, k) == m
MapDelete(m, k) == [x \in DOMAIN m \ {k} |-> m[x]]

(***************************************************************************)
(* Literals of the source                                                  *)
(***************************************************************************)
BearerPrefix == <<"B", "e", "a", "r", "e", "r", " ">>
DefaultAccountId == <<"d", "e", "f", "a", "u", "l", "t">>
BridgePath == "/api/telegram/external-messages"
MaxBytes == 1048576

(***************************************************************************)
(* Types                                                                   *)
(***************************************************************************)
EmptyObject == [k \in {} |-> 0]

\* The properties of a parsed body that the handler reads; an absent property
\* reads as undefined.
NoFields ==
  [chatId |-> Undef, messageId |-> Undef, senderName |-> Undef,
   senderUsername |-> Undef, senderId |-> Undef, text |-> Undef,
   timestamp |-> Undef, replyToMessageId |-> Undef, topicId |-> Undef,
   accountId |-> Undef]

\* A value JSON.parse returns: a primitive, or an object with its properties.
Primitive(v) == [t |-> v.t, n |-> v.n, s |-> v.s, f |-> NoFields]
Object(fields) == [t |-> "object", n |-> 0, s |-> <<>>, f |-> fields]

\* {chatId: -5001, messageId: 42, senderName: "Ana", text: "hi",
\*  timestamp: 1700000000}
BaseFields ==
  [NoFields EXCEPT !.chatId = Num(-5001), !.messageId = Num(42),
                   !.senderName = Str(<<"A", "n", "a">>),
                   !.text = Str(<<"h", "i">>),
                   !.timestamp = Num(1700000000)]

\* ExternalMessagesConfig
Config(secret, historyLimit) == [secret |-> secret, historyLimit |-> historyLimit]

(***************************************************************************)
(* Template strings: a sequence of parts, each a literal of the source or  *)
(* the characters of an interpolated string                                *)
(***************************************************************************)
Lit(text) == [lit |-> text, chars |-> <<>>]
Chars(cs) == [lit |-> "", chars |-> cs]

(***************************************************************************)
(* Number(v), for the integers and strings a JSON body can carry           *)
(***************************************************************************)
Digits == {"0", "1", "2", "3", "4", "5", "6", "7", "8", "9"}

DigitVal(c) ==
  CASE c = "0" -> 0 [] c = "1" -> 1 [] c = "2" -> 2 [] c = "3" -> 3
    [] c = "4" -> 4 [] c = "5" -> 5 [] c = "6" -> 6 [] c = "7" -> 7
    [] c = "8" -> 8 [] c = "9" -> 9

RECURSIVE DigitsToNat(_)
DigitsToNat(cs) ==
  IF cs = <<>> THEN 0
  ELSE 10 * DigitsToNat(SubSeq(cs, 1, Len(cs) - 1)) + DigitVal(cs[Len(cs)])

AllDigits(cs) == cs # <<>> /\ \A i \in 1..Len(cs) : cs[i] \in Digits

NaN == [nan |-> TRUE, n |-> 0]
Finite(k) == [nan |-> FALSE, n |-> k]

\* StringToNumber on decimal integer literals
NumberOfString(cs) ==
  LET t == Trim(cs) IN
    IF t = <<>> THEN Finite(0)
    ELSE IF AllDigits(t) THEN Finite(DigitsToNat(t))
    ELSE IF Head(t) = "-" /\ AllDigits(Tail(t)) THEN Finite(0 - DigitsToNat(Tail(t)))
    ELSE IF Head(t) = "+" /\ AllDigits(Tail(t)) THEN Finite(DigitsToNat(Tail(t)))
    ELSE NaN

Number(v) ==
  CASE v.t = "number" -> Finite(v.n)
    [] v.t = "string" -> NumberOfString(v.s)
    [] v.t = "boolean" -> Finite(v.n)
    [] v.t = "null" -> Finite(0)
    [] v.t = "array" -> Finite(0)
    [] OTHER -> NaN

DigitChar(d) ==
  CASE d = 0 -> "0" [] d = 1 -> "1" [] d = 2 -> "2" [] d = 3 -> "3"
    [] d = 4 -> "4" [] d = 5 -> "5" [] d = 6 -> "6" [] d = 7 -> "7"
    [] d = 8 -> "8" [] d = 9 -> "9"

RECURSIVE NatToChars(_)
NatToChars(k) ==
  IF k < 10 THEN <<DigitChar(k)>>
  ELSE Append(NatToChars(k \div 10), DigitChar(k % 10))

\* String(x) of a number, as a template literal interpolates it
NumberToChars(x) ==
  IF x.nan THEN <<"N", "a", "N">>
  ELSE IF x.n < 0 THEN <<"-">> \o NatToChars(0 - x.n)
  ELSE NatToChars(x.n)

(***************************************************************************)
(* extractToken, validatePayload, buildSyntheticUpdate                     *)
(***************************************************************************)
\* extractToken(req): the trimmed bearer token, else the trimmed token
\* header when it is a single string, else null
extractToken(r) ==
  LET authHeader == r.headers.authorization
      tokenHeader == r.headers.xOpenclawToken
  IN IF authHeader.t = "string" /\ StartsWith(authHeader.s, BearerPrefix)
     THEN Str(Trim(SliceFrom(authHeader.s, 7)))
     ELSE IF TypeOf(tokenHeader) = "string"
     THEN Str(Trim(tokenHeader.s))
     ELSE Null

validatePayloadNoTimestamp(payload) ==
  IF Falsy(payload) \/ TypeOf(payload) # "object" THEN FALSE
  ELSE LET p == payload.f IN
    IF IsNullish(p.chatId) THEN FALSE
    ELSE IF IsNullish(p.messageId) THEN FALSE
    ELSE IF TypeOf(p.senderName) # "string" \/ Trim(p.senderName.s) = <<>> THEN FALSE
    ELSE IF TypeOf(p.text) # "string" THEN FALSE
    ELSE TRUE

validatePayloadTruthyText(payload) ==
  IF Falsy(payload) \/ TypeOf(payload) # "object" THEN FALSE
  ELSE LET p == payload.f IN
    IF IsNullish(p.chatId) THEN FALSE
    ELSE IF IsNullish(p.messageId) THEN FALSE
    ELSE IF TypeOf(p.senderName) # "string" \/ Trim(p.senderName.s) = <<>> THEN FALSE
    ELSE IF TypeOf(p.text) # "string" \/ Falsy(p.text) THEN FALSE
    ELSE IF TypeOf(p.timestamp) # "number" THEN FALSE
    ELSE TRUE

validatePayload(payload) ==
  IF Falsy(payload) \/ TypeOf(payload) # "object" THEN FALSE
  ELSE LET p == payload.f IN
    IF IsNullish(p.chatId) THEN FALSE
    ELSE IF IsNullish(p.messageId) THEN FALSE
    ELSE IF TypeOf(p.senderName) # "string" \/ Trim(p.senderName.s) = <<>> THEN FALSE
    ELSE IF TypeOf(p.text) # "string" THEN FALSE
    ELSE IF TypeOf(p.timestamp) # "number" THEN FALSE
    ELSE TRUE

\* const from: the sender, with its id (0 when senderId is falsy) and, when
\* senderUsername is truthy, its username
FromWithoutId(p) ==
  [id |-> Finite(0), is_bot |-> FALSE, first_name |-> Trim(p.senderName.s)]
    @@ (IF ~Falsy(p.senderUsername)
        THEN [username |-> p.senderUsername]
        ELSE EmptyObject)
FromAlwaysUsername(p) ==
  [id |-> IF ~Falsy(p.senderId) THEN Number(p.senderId) ELSE Finite(0),
   is_bot |-> FALSE, first_name |-> Trim(p.senderName.s),
   username |-> IF p.senderUsername.t = "string" THEN p.senderUsername
                ELSE Str(<<>>)]
From(p) ==
  [id |-> IF ~Falsy(p.senderId) THEN Number(p.senderId) ELSE Finite(0),
   is_bot |-> FALSE, first_name |-> Trim(p.senderName.s)]
    @@ (IF ~Falsy(p.senderUsername)
        THEN [username |-> p.senderUsername]
        ELSE EmptyObject)

\* const isGroup = chatId < 0 (false for NaN)
IsGroupNonPositive(chatId) == ~chatId.nan /\ chatId.n <= 0
IsGroup(chatId) == ~chatId.nan /\ chatId.n < 0

\* buildSyntheticUpdate(payload) with syntheticUpdateCounter = counter before
\* the call; the caller stores counter - 1.
buildSyntheticUpdate(payload, counter) ==
  LET p == payload.f
      updateId == counter
      chatId == Number(p.chatId)
      messageId == Number(p.messageId)
      firstName == Trim(p.senderName.s)
      from == From(p)
      isGroup == IsGroup(chatId)
      chat == IF isGroup
              THEN [id |-> chatId, type |-> "supergroup",
                    title |-> <<Lit("Chat "), Chars(NumberToChars(chatId))>>]
              ELSE [id |-> chatId, type |-> "private", first_name |-> firstName]
      message ==
        [message_id |-> messageId, date |-> p.timestamp, chat |-> chat,
         from |-> from, text |-> p.text]
          @@ (IF ~Falsy(p.replyToMessageId)
              THEN [reply_to_message |->
                      [message_id |-> Number(p.replyToMessageId),
                       date |-> p.timestamp, chat |-> chat]]
              ELSE EmptyObject)
          @@ (IF ~Falsy(p.topicId)
              THEN [message_thread_id |-> p.topicId]
              ELSE EmptyObject)
  IN [update_id |-> updateId, message |-> message]

(***************************************************************************)
(* Responses and errors                                                    *)
(***************************************************************************)
\* new Error(message), and a thrown non-Error value whose String() is text;
\* both texts are template strings (sequences of parts)
ErrorOf(text) == [isError |-> TRUE, text |-> text]
ThrownValue(text) == [isError |-> FALSE, text |-> text]

NoResponse ==
  [ended |-> FALSE, statusCode |-> 200, allow |-> "", contentType |-> "",
   text |-> "", json |-> EmptyObject]

\* sendJson(res, status, body)
sendJson(status, body) ==
  [ended |-> TRUE, statusCode |-> status, allow |-> "",
   contentType |-> "application/json; charset=utf-8", text |-> "", json |-> body]

MethodNotAllowed ==
  [ended |-> TRUE, statusCode |-> 405, allow |-> "POST",
   contentType |-> "text/plain; charset=utf-8", text |-> "Method Not Allowed",
   json |-> EmptyObject]

JsonError(e) == [ok |-> FALSE, error |-> e]

(***************************************************************************)
(* The handler's frame                                                     *)
(***************************************************************************)
NoPayload == Primitive(Undef)
NoBody == [ok |-> FALSE, value |-> NoPayload, err |-> ErrorOf(<<>>)]
Resolved(value) == [ok |-> TRUE, value |-> value, err |-> ErrorOf(<<>>)]
Rejected(e) == [ok |-> FALSE, value |-> NoPayload, err |-> e]

IdleFrame ==
  [pc |-> "idle", token |-> Null, body |-> NoBody, accountId |-> <<>>,
   bot |-> "undefined", config |-> EmptyObject, syntheticUpdate |-> EmptyObject,
   call |-> 0, ret |-> "none"]

NoRequest ==
  [url |-> [pathname |-> "", params |-> {}], method |-> "",
   headers |-> [authorization |-> Undef, xOpenclawToken |-> Undef]]

IdleReader ==
  [totalLength |-> 0, chunks |-> 0, aborted |-> FALSE, destroyed |-> FALSE]

(***************************************************************************)
(* Initial state: empty registries, counter at -1, no request arrived      *)
(***************************************************************************)
WorkAccountId == <<"w", "o", "r", "k">>
AccountIds == {DefaultAccountId, WorkAccountId}

(***************************************************************************)
(* resolveExternalMessagesConfig                                           *)
(***************************************************************************)
\* A value of an externalMessages property: an object with its secret and
\* historyLimit properties, or anything else
NoSettingsFields == [secret |-> Undef, historyLimit |-> Undef]
NotSettings(v) == [t |-> v.t, n |-> v.n, s |-> v.s, f |-> NoSettingsFields]
Settings(secret, historyLimit) ==
  [t |-> "object", n |-> 0, s |-> <<>>,
   f |-> [secret |-> secret, historyLimit |-> historyLimit]]

\* cfg.channels?.telegram: absent, or with its externalMessages, its
\* historyLimit and its accounts (account id -> externalMessages of the
\* account's config)
NoTelegramConfig ==
  [present |-> FALSE, externalMessages |-> NotSettings(Undef),
   historyLimit |-> Undef, accounts |-> EmptyObject]
TelegramConfig(externalMessages, historyLimit, accounts) ==
  [present |-> TRUE, externalMessages |-> externalMessages,
   historyLimit |-> historyLimit, accounts |-> accounts]

\* OpenClawConfig: cfg.channels?.telegram and
\* cfg.messages?.groupChat?.historyLimit
OpenClawConfig(telegram, groupChatHistoryLimit) ==
  [telegram |-> telegram, groupChatHistoryLimit |-> groupChatHistoryLimit]

\* a ?? b
Coalesce(a, b) == IF IsNullish(a) THEN b ELSE a

\* The externalMessages the resolver goes by:
\* accountConfig?.externalMessages ?? telegramConfig?.externalMessages
SelectChannelFirst(telegramConfig, accountId) ==
  Coalesce(telegramConfig.externalMessages,
           IF accountId \in DOMAIN telegramConfig.accounts
           THEN telegramConfig.accounts[accountId]
           ELSE NotSettings(Undef))
SelectExternalConfig(telegramConfig, accountId) ==
  Coalesce(IF accountId \in DOMAIN telegramConfig.accounts
           THEN telegramConfig.accounts[accountId]
           ELSE NotSettings(Undef),
           telegramConfig.externalMessages)

\* typeof secret === "string" && secret.trim() is truthy
SecretUsableUntrimmed(secret) == TypeOf(secret) = "string" /\ secret.s # <<>>
SecretUsable(secret) == TypeOf(secret) = "string" /\ Trim(secret.s) # <<>>

\* The built-in default of historyLimit
DefaultHistoryLimit == 50

\* The historyLimit of the resolved config
ResolveHistoryLimit(cfg, config) ==
  IF TypeOf(config.historyLimit) = "number"
  THEN config.historyLimit
  ELSE Coalesce(cfg.telegram.historyLimit,
                Coalesce(cfg.groupChatHistoryLimit, Num(DefaultHistoryLimit)))

\* What resolveExternalMessagesConfig returns: null, or the config
NullConfig == [null |-> TRUE]
ResolvedConfig(secret, historyLimit) ==
  [null |-> FALSE, secret |-> secret, historyLimit |-> historyLimit,
   envelopeOptions |-> EmptyObject]

\* resolveExternalMessagesConfig(accountId) when loadConfig() returns cfg
resolveExternalMessagesConfig(accountId, cfg) ==
  LET telegramConfig == cfg.telegram IN
    IF ~telegramConfig.present THEN NullConfig
    ELSE LET externalConfig == SelectExternalConfig(telegramConfig, accountId) IN
      IF Falsy(externalConfig) \/ TypeOf(externalConfig) # "object" THEN NullConfig
      ELSE LET config == externalConfig.f
               secret == config.secret
           IN IF ~SecretUsable(secret) THEN NullConfig
              ELSE ResolvedConfig(Trim(secret.s), ResolveHistoryLimit(cfg, config))

\* No call of the resolver yet
NoResolution == [called |-> FALSE, accountId |-> <<>>, result |-> NullConfig]

(***************************************************************************)
(* resolveExtraParams                                                      *)
(***************************************************************************)
\* `${provider}/${modelId}`: strings are sequences of pieces
ModelKey(provider, modelId) == provider \o <<"/">> \o modelId

\* cfg: undefined, or with cfg.agents.defaults.models (model key -> entry)
NoModelConfig == [defined |-> FALSE, models |-> EmptyObject]
ModelConfig(models) == [defined |-> TRUE, models |-> models]

\* An entry of models, with params or without; temperature in tenths, and 0
\* for a parameter that is not set
NoParams == [given |-> FALSE, temperature |-> 0, maxTokens |-> 0]
Params(temperature, maxTokens) ==
  [given |-> TRUE, temperature |-> temperature, maxTokens |-> maxTokens]

\* resolveExtraParams({cfg, provider, modelId}): the params of the entry
\* under the model key, else undefined (NoParams)
resolveExtraParamsByProvider(cfg, provider, modelId) ==
  IF ~cfg.defined THEN NoParams
  ELSE IF \E k \in DOMAIN cfg.models : SubSeq(k, 1, Len(provider)) = provider
  THEN cfg.models[CHOOSE k \in DOMAIN cfg.models :
                    SubSeq(k, 1, Len(provider)) = provider]
  ELSE NoParams
resolveExtraParams(cfg, provider, modelId) ==
  IF ~cfg.defined THEN NoParams
  ELSE IF ModelKey(provider, modelId) \in DOMAIN cfg.models
  THEN cfg.models[ModelKey(provider, modelId)]
  ELSE NoParams

NoExtraCall ==
  [called |-> FALSE, cfg |-> NoModelConfig, provider |-> <<>>, modelId |-> <<>>,
   result |-> NoParams]

\* The bot of an account as its owner sees it: never started, live with the
\* handle and secret it registered, or stopped (keeping what it had registered)
NoSession ==
  [state |-> "never", bot |-> "undefined", secret |-> <<>>,
   config |-> EmptyObject]

Init ==
  /\ botRegistry = EmptyObject
  /\ configRegistry = EmptyObject
  /\ syntheticUpdateCounter = -1
  /\ sessions = [a \in AccountIds |-> NoSession]
  /\ req = [r \in Reqs |-> NoRequest]
  /\ rd = [r \in Reqs |-> IdleReader]
  /\ h = [r \in Reqs |-> IdleFrame]
  /\ res = [r \in Reqs |-> NoResponse]
  /\ calls = <<>>
  /\ loadedConfig = OpenClawConfig(NoTelegramConfig, Undef)
  /\ resolved = NoResolution
  /\ extraCall = NoExtraCall
  /\ legacyCalls = [a \in AccountIds |-> "none"]

(***************************************************************************)
(* Registry operations                                                     *)
(***************************************************************************)
\* registerBotForExternalMessages(accountId, bot, config), called when the
\* bot of the account starts
Register(accountId, bot, config) ==
  /\ botRegistry' = MapSet(botRegistry, accountId, bot)
  /\ configRegistry' = MapSet(configRegistry, accountId, config)
  /\ sessions' = [sessions EXCEPT ![accountId] =
                    [state |-> "live", bot |-> bot, secret |-> config.secret,
                     config |-> config]]
  /\ UNCHANGED <<syntheticUpdateCounter, req, rd, h, res, calls>>
  /\ UNCHANGED <<loadedConfig, resolved, extraCall, legacyCalls>>

\* unregisterBotForExternalMessages(accountId), called when the bot stops
Unregister(accountId) ==
  /\ botRegistry' = MapDelete(botRegistry, accountId)
  /\ configRegistry' = MapDelete(configRegistry, accountId)
  /\ sessions' = [sessions EXCEPT ![accountId].state = "stopped"]
  /\ UNCHANGED <<syntheticUpdateCounter, req, rd, h, res, calls>>
  /\ UNCHANGED <<loadedConfig, resolved, extraCall, legacyCalls>>

\* registerGroupHistories(_accountId, _historyMap, _config) and
\* unregisterGroupHistories(_accountId): what they make of a registry
registerGroupHistoriesStores(registry, accountId, config) ==
  MapSet(registry, accountId, config)
registerGroupHistories(registry, accountId, config) == registry
unregisterGroupHistories(registry, accountId) == registry

\* A caller of the old API registers the group histories of an account
RegisterGroupHistories(accountId, config) ==
  /\ botRegistry' = botRegistry
  /\ configRegistry' = registerGroupHistories(configRegistry, accountId, config)
  /\ legacyCalls' = [legacyCalls EXCEPT ![accountId] = "register"]
  /\ UNCHANGED <<syntheticUpdateCounter, sessions, req, rd, h, res, calls>>
  /\ UNCHANGED <<loadedConfig, resolved, extraCall>>

\* A caller of the old API unregisters the group histories of an account
UnregisterGroupHistories(accountId) ==
  /\ botRegistry' = unregisterGroupHistories(botRegistry, accountId)
  /\ configRegistry' = unregisterGroupHistories(configRegistry, accountId)
  /\ legacyCalls' = [legacyCalls EXCEPT ![accountId] = "unregister"]
  /\ UNCHANGED <<syntheticUpdateCounter, sessions, req, rd, h, res, calls>>
  /\ UNCHANGED <<loadedConfig, resolved, extraCall>>

(***************************************************************************)
(* handleExternalMessagesRequest                                           *)
(***************************************************************************)
\* payload.accountId?.trim() || "default": calling .trim on a value that has
\* no such method throws a TypeError
ResolveAccountId(payload) ==
  LET a == payload.f.accountId IN
    IF IsNullish(a) THEN [threw |-> FALSE, id |-> DefaultAccountId]
    ELSE IF a.t = "string"
    THEN [threw |-> FALSE,
          id |-> IF Trim(a.s) = <<>> THEN DefaultAccountId ELSE Trim(a.s)]
    ELSE [threw |-> TRUE, id |-> <<>>]

\* botRegistry.get(accountId), configRegistry.get(accountId)
LookupBot(accountId) == MapGet(botRegistry, accountId, "undefined")
LookupConfigGlobal(accountId) ==
  IF DOMAIN configRegistry = {} THEN EmptyObject
  ELSE configRegistry[CHOOSE a \in DOMAIN configRegistry :
                        \A b \in DOMAIN configRegistry : Len(a) >= Len(b)]
LookupConfigFresh(accountId) ==
  LET now == resolveExternalMessagesConfig(accountId, loadedConfig)
  IN IF now.null THEN EmptyObject ELSE now
LookupConfig(accountId) == MapGet(configRegistry, accountId, EmptyObject)

\* token !== config.secret, negated
CredentialAlwaysOk(token, config) == TRUE
CredentialOk(token, config) == token.s = config.secret

\* The caught rejection of readJsonBody as the 400 message
BodyErrMsg(err) ==
  IF err.isError THEN err.text ELSE <<Lit("Invalid request body")>>

\* The caught failure of bot.handleUpdate as errMsg
DispatchErrMsg(err) == err.text

\* url.searchParams.has("token") || url.searchParams.has("secret")
HasQueryToken(url) == "token" \in url.params
HasQueryCredential(url) == "token" \in url.params \/ "secret" \in url.params

\* The synchronous start of the handler, up to the await of readJsonBody
Arrive(r, rq) ==
  /\ h[r].pc = "idle"
  /\ \A q \in 1..(r - 1) : h[q].pc # "idle"   \* requests are numbered as they arrive
  /\ req' = [req EXCEPT ![r] = rq]
  /\ LET token == extractToken(rq) IN
       IF rq.url.pathname # BridgePath
       THEN /\ h' = [h EXCEPT ![r].pc = "done", ![r].ret = "false"]
            /\ UNCHANGED res
       ELSE IF rq.method # "POST"
       THEN /\ h' = [h EXCEPT ![r].pc = "done", ![r].ret = "true"]
            /\ res' = [res EXCEPT ![r] = MethodNotAllowed]
       ELSE IF HasQueryCredential(rq.url)
       THEN /\ h' = [h EXCEPT ![r].pc = "done", ![r].ret = "true"]
            /\ res' = [res EXCEPT ![r] = sendJson(400, JsonError(
                 <<Lit("Token must be provided via Authorization: Bearer <token> or X-OpenClaw-Token header (query parameters are not allowed)")>>))]
       ELSE IF Falsy(token)
       THEN /\ h' = [h EXCEPT ![r].pc = "done", ![r].ret = "true",
                              ![r].token = token]
            /\ res' = [res EXCEPT ![r] = sendJson(401, JsonError(
                 <<Lit("Missing authentication token")>>))]
       ELSE /\ h' = [h EXCEPT ![r].pc = "reading", ![r].token = token]
            /\ UNCHANGED res
  /\ UNCHANGED <<botRegistry, configRegistry, syntheticUpdateCounter, sessions,
                 rd, calls>>
  /\ UNCHANGED <<loadedConfig, resolved, extraCall, legacyCalls>>

\* totalLength > maxBytes
ExceedsDoubleCeiling(total) == total > 2 * MaxBytes
ExceedsCeiling(total) == total > MaxBytes

\* readJsonBody, req.on("data"): a chunk of len bytes arrives; past the
\* ceiling the read is rejected and the request destroyed
ReqData(r, len) ==
  /\ h[r].pc = "reading"
  /\ LET total == rd[r].totalLength + len IN
       IF ExceedsCeiling(total)
       THEN /\ rd' = [rd EXCEPT ![r].totalLength = total, ![r].destroyed = TRUE]
            /\ h' = [h EXCEPT ![r].pc = "bodyRead",
                              ![r].body = Rejected(ErrorOf(<<Lit("Payload too large")>>))]
       ELSE /\ rd' = [rd EXCEPT ![r].totalLength = total, ![r].chunks = @ + 1]
            /\ UNCHANGED h
  /\ UNCHANGED <<botRegistry, configRegistry, syntheticUpdateCounter, sessions,
                 req, res, calls>>
  /\ UNCHANGED <<loadedConfig, resolved, extraCall, legacyCalls>>

\* The outcome of JSON.parse on the concatenated chunks
SyntaxError == [ok |-> FALSE, value |-> NoPayload]
Parsed(value) == [ok |-> TRUE, value |-> value]

\* readJsonBody, req.on("end"): the body is complete; an empty body is not JSON
ReqEnd(r, parsed) ==
  /\ h[r].pc = "reading"
  /\ parsed.ok => rd[r].chunks > 0
  /\ h' = [h EXCEPT ![r].pc = "bodyRead",
                    ![r].body =
                      IF parsed.ok THEN Resolved(parsed.value)
                      ELSE Rejected(ErrorOf(<<Lit("Invalid JSON: "),
                                              Lit("SyntaxError")>>))]
  /\ UNCHANGED <<botRegistry, configRegistry, syntheticUpdateCounter, sessions,
                 req, rd, res, calls>>
  /\ UNCHANGED <<loadedConfig, resolved, extraCall, legacyCalls>>

\* What the "error" listener of readJsonBody settles the read with
OnReqErrorAsEnd(r, err) ==
  IF rd[r].chunks > 0 THEN Resolved(Object(BaseFields)) ELSE Rejected(err)
OnReqError(r, err) == Rejected(err)

\* readJsonBody, req.on("error"): the client went away before the end of the
\* body
ReqError(r) ==
  /\ h[r].pc = "reading"
  /\ rd' = [rd EXCEPT ![r].aborted = TRUE]
  /\ h' = [h EXCEPT ![r].pc = "bodyRead",
                    ![r].body = OnReqError(r, ErrorOf(<<Lit("aborted")>>))]
  /\ UNCHANGED <<botRegistry, configRegistry, syntheticUpdateCounter, sessions,
                 req, res, calls>>
  /\ UNCHANGED <<loadedConfig, resolved, extraCall, legacyCalls>>

\* The call bot.handleUpdate(syntheticUpdate) as it starts
StartCallTwice(log, call) == Append(Append(log, call), call)
StartCall(log, call) == Append(log, call)

\* syntheticUpdateCounter--, the value stored
IncrementCounter(counter) == counter + 1
KeepCounter(counter) == counter
DecrementCounter(counter) == counter - 1

\* From the settled body read to the await of bot.handleUpdate
Continue(r) ==
  /\ h[r].pc = "bodyRead"
  /\ LET body == h[r].body
         payload == body.value
         acc == ResolveAccountId(payload)
         bot == LookupBot(acc.id)
         config == LookupConfig(acc.id)
         syntheticUpdate == buildSyntheticUpdate(payload, syntheticUpdateCounter)
     IN
       IF ~body.ok
       THEN /\ h' = [h EXCEPT ![r].pc = "done", ![r].ret = "true"]
            /\ res' = [res EXCEPT ![r] = sendJson(400, JsonError(BodyErrMsg(body.err)))]
            /\ UNCHANGED <<syntheticUpdateCounter, calls>>
       ELSE IF ~validatePayload(payload)
       THEN /\ h' = [h EXCEPT ![r].pc = "done", ![r].ret = "true"]
            /\ res' = [res EXCEPT ![r] = sendJson(400, JsonError(
                 <<Lit("Invalid payload: required fields are chatId, messageId, senderName, text, timestamp")>>))]
            /\ UNCHANGED <<syntheticUpdateCounter, calls>>
       ELSE IF acc.threw
       THEN /\ h' = [h EXCEPT ![r].pc = "threw"]
            /\ UNCHANGED <<res, syntheticUpdateCounter, calls>>
       ELSE IF bot = "undefined" \/ config = EmptyObject
       THEN /\ h' = [h EXCEPT ![r].pc = "done", ![r].ret = "true",
                              ![r].accountId = acc.id, ![r].bot = bot,
                              ![r].config = config]
            /\ res' = [res EXCEPT ![r] = sendJson(503, JsonError(
                 <<Lit("No Telegram bot running for account \""), Chars(acc.id),
                   Lit("\"")>>))]
            /\ UNCHANGED <<syntheticUpdateCounter, calls>>
       ELSE IF ~CredentialOk(h[r].token, config)
       THEN /\ h' = [h EXCEPT ![r].pc = "done", ![r].ret = "true",
                              ![r].accountId = acc.id, ![r].bot = bot,
                              ![r].config = config]
            /\ res' = [res EXCEPT ![r] = sendJson(401, JsonError(
                 <<Lit("Invalid authentication token")>>))]
            /\ UNCHANGED <<syntheticUpdateCounter, calls>>
       ELSE /\ syntheticUpdateCounter' = DecrementCounter(syntheticUpdateCounter)
            /\ calls' = StartCall(calls,
                 [req |-> r, bot |-> bot, update |-> syntheticUpdate,
                  state |-> "pending", err |-> ErrorOf(<<>>)])
            /\ h' = [h EXCEPT ![r].pc = "dispatching",
                              ![r].accountId = acc.id, ![r].bot = bot,
                              ![r].config = config,
                              ![r].syntheticUpdate = syntheticUpdate,
                              ![r].call = Len(calls')]
            /\ UNCHANGED res
  /\ UNCHANGED <<botRegistry, configRegistry, sessions, req, rd>>
  /\ UNCHANGED <<loadedConfig, resolved, extraCall, legacyCalls>>

\* bot.handleUpdate returns, or raises err (the work of the bot's pipeline)
HandleUpdateReturns(r) ==
  /\ h[r].pc = "dispatching"
  /\ calls[h[r].call].state = "pending"
  /\ calls' = [calls EXCEPT ![h[r].call].state = "returned"]
  /\ UNCHANGED <<botRegistry, configRegistry, syntheticUpdateCounter, sessions,
                 req, rd, h, res>>
  /\ UNCHANGED <<loadedConfig, resolved, extraCall, legacyCalls>>

HandleUpdateRaises(r, err) ==
  /\ h[r].pc = "dispatching"
  /\ calls[h[r].call].state = "pending"
  /\ calls' = [calls EXCEPT ![h[r].call].state = "raised",
                            ![h[r].call].err = err]
  /\ UNCHANGED <<botRegistry, configRegistry, syntheticUpdateCounter, sessions,
                 req, rd, h, res>>
  /\ UNCHANGED <<loadedConfig, resolved, extraCall, legacyCalls>>

\* await bot.handleUpdate(...): the handler goes on once the call has settled
DispatchNotAwaited(r) == TRUE
DispatchSettled(r) == calls[h[r].call].state # "pending"

\* After the await: the catch block's 500, or the 200
Resume(r) ==
  /\ h[r].pc = "dispatching"
  /\ DispatchSettled(r)
  /\ LET call == calls[h[r].call]
         payload == h[r].body.value
     IN IF call.state = "raised"
        THEN res' = [res EXCEPT ![r] = sendJson(500, JsonError(
               <<Lit("Processing failed: ")>> \o DispatchErrMsg(call.err)))]
        ELSE res' = [res EXCEPT ![r] = sendJson(200,
               [ok |-> TRUE, updateId |-> h[r].syntheticUpdate.update_id,
                messageId |-> payload.f.messageId, chatId |-> payload.f.chatId])]
  /\ h' = [h EXCEPT ![r].pc = "done", ![r].ret = "true"]
  /\ UNCHANGED <<botRegistry, configRegistry, syntheticUpdateCounter, sessions,
                 req, rd, calls>>
  /\ UNCHANGED <<loadedConfig, resolved, extraCall, legacyCalls>>

(***************************************************************************)
(* Inputs                                                                  *)
(***************************************************************************)
Secret1 == <<"s", "1">>
Secret2 == <<"t", "2">>

\* What a bot start registers: a bot handle with its resolved config
Registrations ==
  {<<"bot1", Config(Secret1, 50) @@ [envelopeOptions |-> EmptyObject]>>,
   <<"bot2", Config(Secret2, 20)>>}

Request(pathname, params, method, authorization, xOpenclawToken) ==
  [url |-> [pathname |-> pathname, params |-> params], method |-> method,
   headers |-> [authorization |-> authorization,
                xOpenclawToken |-> xOpenclawToken]]

Post(authorization, xOpenclawToken) ==
  Request(BridgePath, {}, "POST", authorization, xOpenclawToken)

Bearer(cs) == Str(BearerPrefix \o cs)

\* Header pairs (Authorization, X-OpenClaw-Token)
HeaderPairs ==
  {<<Bearer(Secret1), Undef>>,
   <<Bearer(Secret2), Undef>>,
   <<Bearer(<<" ">> \o Secret1 \o <<" ">>), Str(Secret2)>>,
   <<Undef, Str(<<" ">> \o Secret2 \o <<" ">>)>>,
   <<Str(<<"b", "e", "a", "r", "e", "r", " ">> \o Secret1), Str(Secret1)>>,
   <<Undef, Undef>>,
   <<Bearer(<<>>), Str(Secret1)>>,
   <<Undef, Arr>>,
   <<Str(<<"B", "a", "s", "i", "c", " ">> \o Secret1), Undef>>}

Requests ==
  {Post(hp[1], hp[2]) : hp \in HeaderPairs}
  \cup {Request("/api/status", {}, "POST", Bearer(Secret1), Undef),
        Request(BridgePath, {}, "GET", Bearer(Secret1), Undef),
        Request(BridgePath, {"token"}, "POST", Bearer(Secret1), Undef),
        Request(BridgePath, {"secret"}, "POST", Undef, Str(Secret2)),
        Request(BridgePath, {"token", "limit"}, "POST", Undef, Undef),
        Request(BridgePath, {"token"}, "PUT", Undef, Undef)}

\* A payload that names its sender
ExampleFields ==
  [BaseFields EXCEPT !.senderUsername = Str(<<"a", "n", "a", "_", "x">>),
                     !.senderId = Num(555)]

\* Parsed bodies: the base payload, the base payload with one property
\* changed, and values that are no object with properties
Payloads ==
  {Object(BaseFields), Object(ExampleFields)}
  \cup {Object([BaseFields EXCEPT !.chatId = v]) :
          v \in {Undef, Null, Str(<<"7", "8", "9">>), Str(<<"a", "b">>), Num(0),
                 Str(<<"-", "1", "2">>)}}
  \cup {Object([BaseFields EXCEPT !.replyToMessageId = Num(41),
                                  !.topicId = Num(7)]),
        Object([BaseFields EXCEPT !.senderUsername = Str(<<>>),
                                  !.replyToMessageId = Num(0),
                                  !.topicId = Num(0)]),
        Object([BaseFields EXCEPT !.replyToMessageId = Str(<<"4", "1">>)])}
  \cup {Object([BaseFields EXCEPT !.messageId = v]) :
          v \in {Undef, Null, Str(<<"4", "2">>)}}
  \cup {Object([BaseFields EXCEPT !.senderName = v]) :
          v \in {Undef, Null, Num(7), Str(<<>>), Str(<<" ", " ">>),
                 Str(<<" ", "A", " ">>)}}
  \cup {Object([BaseFields EXCEPT !.text = v]) :
          v \in {Undef, Null, Num(7), Str(<<>>)}}
  \cup {Object([BaseFields EXCEPT !.timestamp = v]) :
          v \in {Undef, Null, Str(<<"1", "7">>), Num(0)}}
  \cup {Object([BaseFields EXCEPT !.accountId = v]) :
          v \in {Null, Str(DefaultAccountId), Str(WorkAccountId),
                 Str(<<" ">> \o WorkAccountId \o <<" ">>), Str(<<>>),
                 Str(<<" ">>), Str(<<"x">>), Num(5), Bool(TRUE), Arr, Obj}}
  \cup {Object(NoFields), Primitive(Null), Primitive(Num(0)), Primitive(Num(7)),
        Primitive(Str(<<"h", "i">>)), Primitive(Bool(TRUE)), Primitive(Arr)}

Bodies == {Parsed(p) : p \in Payloads} \cup {SyntaxError}

\* Sizes of the chunks a body arrives in
ChunkLens == {524288, 1048576}

\* What bot.handleUpdate raises
Failures ==
  {ErrorOf(<<Lit("boom")>>), ThrownValue(<<Lit("oops")>>)}

\* The inputs of the runs with several requests in flight
ConcRegistrations ==
  {<<"bot1", Config(Secret1, 50) @@ [envelopeOptions |-> EmptyObject]>>}
ConcRequests == {Post(Bearer(Secret1), Undef)}
ConcBodies ==
  {Parsed(Object(BaseFields)),
   Parsed(Object([BaseFields EXCEPT !.accountId = Str(WorkAccountId)]))}
ConcChunkLens == {700000}
ConcFailures == {ErrorOf(<<Lit("boom")>>)}

(***************************************************************************)
(* Specification: one request, with every kind of input, while bots start  *)
(* and stop                                                                *)
(***************************************************************************)
Next ==
  \/ \E a \in AccountIds, g \in Registrations : Register(a, g[1], g[2])
  \/ \E a \in AccountIds : Unregister(a)
  \/ \E rq \in Requests : Arrive(1, rq)
  \/ \E len \in ChunkLens : ReqData(1, len)
  \/ \E parsed \in Bodies : ReqEnd(1, parsed)
  \/ ReqError(1)
  \/ Continue(1)
  \/ HandleUpdateReturns(1)
  \/ \E err \in Failures : HandleUpdateRaises(1, err)
  \/ Resume(1)

Spec == Init /\ [][Next]_vars

(***************************************************************************)
(* Specification: NumReqs requests in flight together                      *)
(***************************************************************************)
NextConc ==
  \/ \E a \in AccountIds, g \in ConcRegistrations : Register(a, g[1], g[2])
  \/ \E a \in AccountIds : Unregister(a)
  \/ \E r \in Reqs, rq \in ConcRequests : Arrive(r, rq)
  \/ \E r \in Reqs, len \in ConcChunkLens : ReqData(r, len)
  \/ \E r \in Reqs, parsed \in ConcBodies : ReqEnd(r, parsed)
  \/ \E r \in Reqs : ReqError(r)
  \/ \E r \in Reqs : Continue(r)
  \/ \E r \in Reqs : HandleUpdateReturns(r)
  \/ \E r \in Reqs, err \in ConcFailures : HandleUpdateRaises(r, err)
  \/ \E r \in Reqs : Resume(r)

SpecConc == Init /\ [][NextConc]_vars

(***************************************************************************)
(* Specification: NumReqs requests in flight together while the bot of one *)
(* account starts, is replaced and stops                                   *)
(***************************************************************************)
ReplaceRequests == {Post(Bearer(Secret1), Undef), Post(Undef, Str(Secret2))}
ReplaceBodies == {Parsed(Object(BaseFields))}

NextReplace ==
  \/ \E g \in Registrations : Register(DefaultAccountId, g[1], g[2])
  \/ Unregister(DefaultAccountId)
  \/ \E r \in Reqs, rq \in ReplaceRequests : Arrive(r, rq)
  \/ \E r \in Reqs, len \in ConcChunkLens : ReqData(r, len)
  \/ \E r \in Reqs, parsed \in ReplaceBodies : ReqEnd(r, parsed)
  \/ \E r \in Reqs : ReqError(r)
  \/ \E r \in Reqs : Continue(r)
  \/ \E r \in Reqs : HandleUpdateReturns(r)
  \/ \E r \in Reqs, err \in ConcFailures : HandleUpdateRaises(r, err)
  \/ \E r \in Reqs : Resume(r)

SpecReplace == Init /\ [][NextReplace]_vars

(***************************************************************************)
(* Specification: resolveExternalMessagesConfig applied to layered         *)
(* configurations                                                          *)
(***************************************************************************)
Key1 == <<"k", "1">>
Key2 == <<"k", "2">>

\* externalMessages of the account's config and of the channel's config
AccountSettings ==
  {NotSettings(v) : v \in {Undef, Null, Bool(FALSE), Arr}}
  \cup {Settings(secret, limit) :
          secret \in {Undef, Str(<<>>), Num(7), Str(<<" ">> \o Key1 \o <<" ">>)},
          limit \in {Undef, Num(10), Num(0), Str(<<"1", "0">>)}}
ChannelSettings ==
  {NotSettings(v) : v \in {Undef, Str(<<"o", "n">>)}}
  \cup {Settings(secret, limit) :
          secret \in {Null, Str(<<" ", " ">>), Str(Key2)},
          limit \in {Undef, Num(20)}}

\* The accounts of the channel: none, or the work account
AccountsOf(settings) == [a \in {WorkAccountId} |-> settings]

Configs ==
  {OpenClawConfig(NoTelegramConfig, limit) : limit \in {Undef, Num(40)}}
  \cup {OpenClawConfig(TelegramConfig(channel, channelLimit, accounts), limit) :
          channel \in ChannelSettings,
          channelLimit \in {Undef, Null, Num(30), Num(-5)},
          accounts \in {EmptyObject} \cup {AccountsOf(x) : x \in AccountSettings},
          limit \in {Undef, Num(40)}}

InitResolve ==
  /\ botRegistry = EmptyObject
  /\ configRegistry = EmptyObject
  /\ syntheticUpdateCounter = -1
  /\ sessions = [a \in AccountIds |-> NoSession]
  /\ req = [r \in Reqs |-> NoRequest]
  /\ rd = [r \in Reqs |-> IdleReader]
  /\ h = [r \in Reqs |-> IdleFrame]
  /\ res = [r \in Reqs |-> NoResponse]
  /\ calls = <<>>
  /\ loadedConfig \in Configs
  /\ resolved = NoResolution
  /\ extraCall = NoExtraCall
  /\ legacyCalls = [a \in AccountIds |-> "none"]

\* A call resolveExternalMessagesConfig(accountId)
Resolve(accountId) ==
  /\ resolved' = [called |-> TRUE, accountId |-> accountId,
                  result |-> resolveExternalMessagesConfig(accountId, loadedConfig)]
  /\ UNCHANGED <<botRegistry, configRegistry, syntheticUpdateCounter, sessions,
                 req, rd, h, res, calls, loadedConfig, extraCall,
                 legacyCalls>>

NextResolve == \E a \in AccountIds : Resolve(a)

SpecResolve == InitResolve /\ [][NextResolve]_vars

(***************************************************************************)
(* Specification: resolveExtraParams applied to model defaults             *)
(***************************************************************************)
Providers == {<<"openai">>, <<"zai">>, <<"open">>}
ModelIds ==
  {<<"gpt-4">>, <<"gpt-4", ".1-mini">>, <<"glm-4.7">>, <<"ai", "/", "gpt-4">>}
ModelKeys == {ModelKey(p, m) : p \in Providers, m \in {<<"gpt-4">>, <<"glm-4.7">>}}
ModelEntries == {Params(7, 2048), Params(7, 0), NoParams}

ModelConfigs ==
  {NoModelConfig, ModelConfig(EmptyObject)}
  \cup {ModelConfig([k \in {key} |-> e]) : key \in ModelKeys, e \in ModelEntries}
  \cup {ModelConfig([k \in {ModelKey(<<"openai">>, <<"gpt-4">>),
                             ModelKey(<<"zai">>, <<"glm-4.7">>)} |->
                       IF k[1] = "zai" THEN Params(1, 64) ELSE Params(7, 2048)])}

\* A call resolveExtraParams({cfg, provider, modelId})
ResolveExtra(cfg, provider, modelId) ==
  /\ extraCall' = [called |-> TRUE, cfg |-> cfg, provider |-> provider,
                   modelId |-> modelId,
                   result |-> resolveExtraParams(cfg, provider, modelId)]
  /\ UNCHANGED <<botRegistry, configRegistry, syntheticUpdateCounter, sessions,
                 req, rd, h, res, calls, loadedConfig, resolved,
                 legacyCalls>>

NextExtraParams ==
  \E cfg \in ModelConfigs, provider \in Providers, modelId \in ModelIds :
    ResolveExtra(cfg, provider, modelId)

SpecExtraParams == Init /\ [][NextExtraParams]_vars

(***************************************************************************)
(* Specification: one request while the configuration changes; a bot       *)
(* starts with the config the resolver returns at that moment              *)
(***************************************************************************)
ReloadConfigs ==
  {OpenClawConfig(NoTelegramConfig, Undef)}
  \cup {OpenClawConfig(TelegramConfig(Settings(Str(k), Undef), Undef, EmptyObject),
                       Undef) : k \in {Key1, Key2}}

ReloadRequests == {Post(Bearer(k), Undef) : k \in {Key1, Key2}}

\* loadConfig() returns cfg from now on
ConfigEdit(cfg) ==
  /\ loadedConfig # cfg
  /\ loadedConfig' = cfg
  /\ UNCHANGED <<botRegistry, configRegistry, syntheticUpdateCounter, sessions,
                 req, rd, h, res, calls, resolved, extraCall,
                 legacyCalls>>

NextReload ==
  \/ \E cfg \in ReloadConfigs : ConfigEdit(cfg)
  \/ Resolve(DefaultAccountId)
  \/ /\ resolved.called
     /\ ~resolved.result.null
     /\ resolved.result = resolveExternalMessagesConfig(resolved.accountId, loadedConfig)
     /\ Register(resolved.accountId, "bot1", resolved.result)
  \/ Unregister(DefaultAccountId)
  \/ \E rq \in ReloadRequests : Arrive(1, rq)
  \/ \E len \in ConcChunkLens : ReqData(1, len)
  \/ \E parsed \in ReplaceBodies : ReqEnd(1, parsed)
  \/ ReqError(1)
  \/ Continue(1)
  \/ HandleUpdateReturns(1)
  \/ \E err \in ConcFailures : HandleUpdateRaises(1, err)
  \/ Resume(1)

SpecReload == Init /\ [][NextReload]_vars

(***************************************************************************)
(* Specification: one request while callers use the old registration       *)
(* functions next to the new ones                                          *)
(***************************************************************************)
NextLegacy ==
  \/ \E a \in AccountIds, g \in ConcRegistrations :
        RegisterGroupHistories(a, g[2])
  \/ \E a \in AccountIds : UnregisterGroupHistories(a)
  \/ \E a \in AccountIds, g \in ConcRegistrations : Register(a, g[1], g[2])
  \/ \E a \in AccountIds : Unregister(a)
  \/ \E rq \in ConcRequests : Arrive(1, rq)
  \/ \E len \in ConcChunkLens : ReqData(1, len)
  \/ \E parsed \in ConcBodies : ReqEnd(1, parsed)
  \/ ReqError(1)
  \/ Continue(1)
  \/ HandleUpdateReturns(1)
  \/ \E err \in ConcFailures : HandleUpdateRaises(1, err)
  \/ Resume(1)

SpecLegacy == Init /\ [][NextLegacy]_vars

(***************************************************************************)
(* Properties                                                              *)
(***************************************************************************)
\* The payload the body read of request r resolved with
PayloadOf(r) == h[r].body.value

\* The handleUpdate calls made for request r
CallsOf(r) == {i \in DOMAIN calls : calls[i].req = r}

\* The handler of r has run the code after the body read
PastBody(r) == h[r].pc \in {"dispatching", "done", "threw"}

\* The step in which the handler of r runs from the settled body read to its
\* next suspension or end
ContinueStep(r) == h[r].pc = "bodyRead" /\ h'[r].pc # "bodyRead"

\* r carries a valid payload whose account id resolves
ValidFor(r) ==
  /\ h[r].body.ok
  /\ validatePayload(PayloadOf(r))
  /\ ~ResolveAccountId(PayloadOf(r)).threw

AccountOf(r) == ResolveAccountId(PayloadOf(r)).id

\* The bot lifecycle of an account id, of any string
SessionOf(a) == IF a \in DOMAIN sessions THEN sessions[a] ELSE NoSession

RequiredFields == {"chatId", "messageId", "senderName", "text", "timestamp"}

MissingRequired(payload) ==
  \E k \in RequiredFields : payload.f[k].t = "undefined"

\* C1: a request whose valid payload resolves to a registered account and
\* whose credential differs from the secret registered for that account, at the
\* moment the handler checks it, is answered 401 and starts no handleUpdate call.
C1_WrongCredential401 ==
  [][\A r \in Reqs :
       (/\ ContinueStep(r)
        /\ ValidFor(r)
        /\ AccountOf(r) \in DOMAIN configRegistry
        /\ AccountOf(r) \in DOMAIN botRegistry
        /\ extractToken(req[r]).s # configRegistry[AccountOf(r)].secret)
       => /\ res'[r].ended
          /\ res'[r].statusCode = 401
          /\ h'[r].pc = "done"
          /\ calls' = calls]_vars

C1_Witness ==
  \E r \in Reqs :
    /\ h[r].pc = "done"
    /\ ValidFor(r)
    /\ res[r].statusCode = 401
    /\ res[r].json = JsonError(<<Lit("Invalid authentication token")>>)
    /\ h[r].config # EmptyObject
    /\ h[r].token.s # h[r].config.secret
    /\ CallsOf(r) = {}

\* C2: a handleUpdate call for a request addressed to account X starts only
\* when the request's credential equals the secret registered for X at that
\* moment; the secret of another account with a different secret never does.
C2_PerAccountAuth ==
  [][Len(calls') > Len(calls) =>
       LET c == calls'[Len(calls')]
           x == AccountOf(c.req)
       IN /\ x \in DOMAIN configRegistry
          /\ extractToken(req[c.req]).s = configRegistry[x].secret
          /\ \A y \in DOMAIN configRegistry \ {x} :
               configRegistry[y].secret # configRegistry[x].secret
                 => extractToken(req[c.req]).s # configRegistry[y].secret]_vars

C2_Witness ==
  \E i \in DOMAIN calls : \E y \in AccountIds :
    LET x == AccountOf(calls[i].req) IN
      /\ y # x
      /\ SessionOf(x).state = "live" /\ SessionOf(y).state = "live"
      /\ SessionOf(x).secret # SessionOf(y).secret
      /\ h[calls[i].req].token.s = SessionOf(x).secret
      /\ calls[i].state = "pending"

\* C3: a parsed payload that lacks one of chatId, messageId, senderName, text,
\* timestamp is answered 400 and no handleUpdate call is made for it.
C3_MissingField400 ==
  \A r \in Reqs :
    (PastBody(r) /\ h[r].body.ok /\ MissingRequired(PayloadOf(r)))
      => /\ h[r].pc = "done"
         /\ res[r].ended
         /\ res[r].statusCode = 400
         /\ CallsOf(r) = {}

C3_Witness ==
  \E r \in Reqs :
    /\ h[r].pc = "done"
    /\ h[r].body.ok
    /\ PayloadOf(r).t = "object"
    /\ PayloadOf(r).f.timestamp.t = "undefined"
    /\ PayloadOf(r).f.text.t = "string"
    /\ res[r].statusCode = 400

\* C4: no request has more than one handleUpdate call; a request whose call
\* raised ends with a 500 whose error carries the failure's message.
C4_AtMostOnceDispatch ==
  \A r \in Reqs :
    /\ Cardinality(CallsOf(r)) <= 1
    /\ \A i \in CallsOf(r) :
         (calls[i].state = "raised" /\ h[r].pc = "done")
           => /\ res[r].ended
              /\ res[r].statusCode = 500
              /\ res[r].json =
                   JsonError(<<Lit("Processing failed: ")>> \o calls[i].err.text)

C4_Witness ==
  \E r \in Reqs : \E i \in CallsOf(r) :
    /\ h[r].pc = "done"
    /\ calls[i].state = "raised"
    /\ calls[i].err.text # <<>>
    /\ res[r].statusCode = 500
    /\ Cardinality(CallsOf(r)) = 1

\* C5: the identifiers of the synthetic updates are negative and strictly
\* decreasing in the order they were allocated, across all accounts, and the
\* counter is moved by allocations alone (never by register or unregister).
C5_IdsNegativeDecreasing ==
  /\ \A i \in DOMAIN calls : calls[i].update.update_id < 0
  /\ \A i, j \in DOMAIN calls :
       i < j => calls[j].update.update_id < calls[i].update.update_id
  /\ syntheticUpdateCounter = -1 - Len(calls)
  /\ \A r \in Reqs :
       h[r].syntheticUpdate # EmptyObject
         => \E i \in CallsOf(r) : calls[i].update = h[r].syntheticUpdate

C5_Witness ==
  /\ Len(calls) >= 2
  /\ AccountOf(calls[1].req) # AccountOf(calls[2].req)
  /\ calls[1].update.update_id = -1
  /\ calls[2].update.update_id = -2
  /\ \E a \in AccountIds : sessions[a].state = "stopped"

\* C6: every handleUpdate call starts on the handle that the live bot of the
\* request's account registered; none starts on the handle of a stopped or
\* replaced bot.
C6_DispatchOnCurrentHandle ==
  [][Len(calls') > Len(calls) =>
       LET c == calls'[Len(calls')]
           x == AccountOf(c.req)
       IN /\ SessionOf(x).state = "live"
          /\ c.bot = SessionOf(x).bot
          /\ c.bot = MapGet(botRegistry, x, "undefined")]_vars

C6_Witness ==
  \E i \in DOMAIN calls :
    LET x == AccountOf(calls[i].req) IN
      /\ calls[i].bot = "bot2"
      /\ calls[i].state = "pending"
      /\ SessionOf(x).state = "stopped"

\* C7: while the bot of an account is stopped (unregistered and not registered
\* again), a request with a valid payload for that account is answered 503 and
\* starts no handleUpdate call, whatever credential it presents.
C7_Unregistered503 ==
  [][\A r \in Reqs :
       (ContinueStep(r) /\ ValidFor(r) /\ SessionOf(AccountOf(r)).state = "stopped")
         => /\ res'[r].ended
            /\ res'[r].statusCode = 503
            /\ h'[r].pc = "done"
            /\ calls' = calls]_vars

C7_Witness ==
  \E r \in Reqs :
    /\ h[r].pc = "done"
    /\ ValidFor(r)
    /\ SessionOf(AccountOf(r)).state = "stopped"
    /\ h[r].token.s = SessionOf(AccountOf(r)).secret
    /\ res[r].statusCode = 503
    /\ CallsOf(r) = {}

\* C8: no exception escapes the handler: every request on the bridge path ends
\* with a written response.
C8_NoEscapingException ==
  \A r \in Reqs :
    /\ h[r].pc # "threw"
    /\ (h[r].pc = "done" /\ req[r].url.pathname = BridgePath) => res[r].ended

\* C9: a response is written for a dispatched request only after its
\* handleUpdate call has returned or raised, and a 200 only after it returned.
C9_DispatchBeforeResponse ==
  \A r \in Reqs :
    res[r].ended =>
      /\ \A i \in CallsOf(r) : calls[i].state # "pending"
      /\ res[r].statusCode = 200 =>
           /\ CallsOf(r) # {}
           /\ \A i \in CallsOf(r) : calls[i].state = "returned"

C9_Witness ==
  \E r \in Reqs : \E i \in CallsOf(r) :
    /\ res[r].ended
    /\ res[r].statusCode = 200
    /\ calls[i].state = "returned"

\* C10: a request whose client went away before the end of the body has its
\* read rejected and never gets a handleUpdate call.
C10_DisconnectNoDispatch ==
  \A r \in Reqs :
    rd[r].aborted =>
      /\ ~h[r].body.ok
      /\ h[r].pc \in {"bodyRead", "done"}
      /\ CallsOf(r) = {}
      /\ h[r].syntheticUpdate = EmptyObject

C10_Witness ==
  \E r \in Reqs :
    /\ rd[r].aborted
    /\ rd[r].chunks > 0
    /\ h[r].pc = "done"
    /\ res[r].statusCode = 400
    /\ \E a \in AccountIds : sessions[a].state = "live"

\* C11: the request is destroyed exactly when the accumulated body length
\* passes the 1 MiB ceiling (a body of exactly 1 MiB is still read); such a
\* request has its read rejected, so the body never reaches validatePayload,
\* no synthetic update is built (no identifier allocated), no handleUpdate
\* call is made, and the answer is 400 "Payload too large".
C11_OversizedAborted ==
  \A r \in Reqs :
    /\ rd[r].destroyed <=> rd[r].totalLength > 1024 * 1024
    /\ rd[r].destroyed =>
         /\ ~h[r].body.ok
         /\ h[r].body.err = ErrorOf(<<Lit("Payload too large")>>)
         /\ h[r].pc \in {"bodyRead", "done"}
         /\ h[r].syntheticUpdate = EmptyObject
         /\ CallsOf(r) = {}
         /\ (\A q \in Reqs \ {r} : h[q].pc = "idle") => syntheticUpdateCounter = -1
         /\ h[r].pc = "done" =>
              res[r] = sendJson(400, JsonError(<<Lit("Payload too large")>>))

C11_Witness ==
  \E r \in Reqs :
    /\ rd[r].destroyed
    /\ rd[r].chunks = 2
    /\ rd[r].totalLength = 1024 * 1024 + 524288
    /\ h[r].pc = "done"
    /\ res[r].statusCode = 400
    /\ h[r].token = Str(Secret1)
    /\ SessionOf(DefaultAccountId).state = "live"
    /\ SessionOf(DefaultAccountId).secret = Secret1

\* C12: a POST to the bridge path whose URL query string has a token or
\* secret parameter is answered 400 whatever its Authorization and
\* X-OpenClaw-Token headers hold; its body is never read and nothing is
\* dispatched for it.
C12_QueryCredential400 ==
  \A r \in Reqs :
    (/\ h[r].pc # "idle"
     /\ req[r].url.pathname = "/api/telegram/external-messages"
     /\ req[r].method = "POST"
     /\ req[r].url.params \cap {"token", "secret"} # {})
    => /\ h[r].pc = "done"
       /\ h[r].ret = "true"
       /\ res[r].ended
       /\ res[r].statusCode = 400
       /\ res[r].json.ok = FALSE
       /\ rd[r] = IdleReader
       /\ h[r].body = NoBody
       /\ h[r].syntheticUpdate = EmptyObject
       /\ CallsOf(r) = {}

C12_Witness ==
  \E r \in Reqs :
    /\ h[r].pc = "done"
    /\ req[r].method = "POST"
    /\ req[r].url.params = {"secret"}
    /\ req[r].headers.xOpenclawToken = Str(Secret2)
    /\ SessionOf(DefaultAccountId).state = "live"
    /\ SessionOf(DefaultAccountId).secret = Secret2
    /\ res[r].statusCode = 400

\* C13: every request ends with the outcome of the first applicable branch,
\* in the order: path mismatch (returns false, nothing written), non-POST
\* 405, credential in the query string 400, no header credential 401 (with
\* the body unread), unreadable body 400, validator failure 400, account not
\* registered 503 (also with a wrong credential), credential mismatch 401,
\* dispatch raised 500, otherwise 200.
C13_Declined == [ret |-> "false", ended |-> FALSE, statusCode |-> 200]
C13_Answer(status) == [ret |-> "true", ended |-> TRUE, statusCode |-> status]
C13_Outcome(r) ==
  [ret |-> h[r].ret, ended |-> res[r].ended, statusCode |-> res[r].statusCode]
C13_FirstBranch(r) ==
  IF req[r].url.pathname # "/api/telegram/external-messages" THEN C13_Declined
  ELSE IF req[r].method # "POST" THEN C13_Answer(405)
  ELSE IF req[r].url.params \cap {"token", "secret"} # {} THEN C13_Answer(400)
  ELSE IF Falsy(extractToken(req[r])) THEN C13_Answer(401)
  ELSE IF ~h[r].body.ok THEN C13_Answer(400)
  ELSE IF ~validatePayload(h[r].body.value) THEN C13_Answer(400)
  ELSE IF h[r].bot = "undefined" \/ h[r].config = EmptyObject THEN C13_Answer(503)
  ELSE IF h[r].token.s # h[r].config.secret THEN C13_Answer(401)
  ELSE IF CallsOf(r) # {} /\ \A i \in CallsOf(r) : calls[i].state = "raised"
  THEN C13_Answer(500)
  ELSE C13_Answer(200)

C13_BranchOrder ==
  \A r \in Reqs :
    /\ h[r].pc \notin {"idle", "reading", "bodyRead", "dispatching"} =>
         C13_Outcome(r) = C13_FirstBranch(r)
    /\ (h[r].pc = "done" /\ res[r].statusCode = 401
          /\ Falsy(extractToken(req[r]))) => rd[r] = IdleReader

\* C14: a handleUpdate call made for a request carries a message whose text is
\* the payload's text, whose chat.id and message_id are the numbers of the
\* payload's chatId and messageId, whose from.id is the number of the
\* payload's senderId (each where the payload gives a number or a string of
\* digits), and whose from.username is the
\* payload's senderUsername when it is a non-empty string; when the call
\* returned, the finished request is answered 200 with ok: true, updateId the
\* update_id of the dispatched update, and messageId and chatId as the payload
\* gave them.
C14_Numeric(v) ==
  v.t = "number" \/ (v.t = "string" /\ v.s # <<>> /\ AllDigits(v.s))
C14_NumberOf(v) ==
  IF v.t = "number" THEN [nan |-> FALSE, n |-> v.n]
  ELSE [nan |-> FALSE, n |-> DigitsToNat(v.s)]

C14_EventAndResponse ==
  \A i \in DOMAIN calls :
    LET r == calls[i].req
        p == PayloadOf(r).f
        m == calls[i].update.message
    IN /\ m.text = p.text
       /\ C14_Numeric(p.chatId) => m.chat.id = C14_NumberOf(p.chatId)
       /\ C14_Numeric(p.messageId) => m.message_id = C14_NumberOf(p.messageId)
       /\ C14_Numeric(p.senderId) => m.from.id = C14_NumberOf(p.senderId)
       /\ (p.senderUsername.t = "string" /\ p.senderUsername.s # <<>>) =>
            ("username" \in DOMAIN m.from /\ m.from.username = p.senderUsername)
       /\ (h[r].pc = "done" /\ calls[i].state = "returned") =>
            /\ res[r].ended
            /\ res[r].statusCode = 200
            /\ res[r].json = [ok |-> TRUE, updateId |-> calls[i].update.update_id,
                              messageId |-> p.messageId, chatId |-> p.chatId]

C14_Witness ==
  \E i \in DOMAIN calls :
    LET r == calls[i].req
        m == calls[i].update.message
    IN /\ calls[i].state = "returned"
       /\ h[r].pc = "done"
       /\ m.text = Str(<<"h", "i">>)
       /\ m.chat.id = [nan |-> FALSE, n |-> -5001]
       /\ m.message_id = [nan |-> FALSE, n |-> 42]
       /\ m.from.id = [nan |-> FALSE, n |-> 555]
       /\ m.from.username = Str(<<"a", "n", "a", "_", "x">>)
       /\ res[r].statusCode = 200
       /\ res[r].json.ok
       /\ res[r].json.updateId = -1
       /\ res[r].json.messageId = Num(42)
       /\ res[r].json.chatId = Num(-5001)

\* C15: the chat of every dispatched update, and of its reply_to_message, is
\* a group-like chat with the title "Chat <id>" and no first_name when the
\* number of the payload's chatId is negative, and otherwise (zero, positive
\* or not a number) a private chat with the sender's trimmed name as
\* first_name and no title; never both.
C15_Negative(v) ==
  \/ v.t = "number" /\ v.n < 0
  \/ v.t = "string" /\ Len(v.s) > 1 /\ v.s[1] = "-" /\ AllDigits(Tail(v.s))

C15_ChatOk(chat, p) ==
  IF C15_Negative(p.chatId)
  THEN /\ chat.type = "supergroup"
       /\ DOMAIN chat = {"id", "type", "title"}
       /\ chat.title = <<Lit("Chat "), Chars(NumberToChars(chat.id))>>
       /\ chat.id.n < 0
       /\ p.chatId = Str(<<"-", "1", "2">>) =>
            chat.title = <<Lit("Chat "), Chars(<<"-", "1", "2">>)>>
  ELSE /\ chat.type = "private"
       /\ DOMAIN chat = {"id", "type", "first_name"}
       /\ chat.first_name = Trim(p.senderName.s)

C15_ChatKindBySign ==
  \A i \in DOMAIN calls :
    LET p == PayloadOf(calls[i].req).f
        m == calls[i].update.message
    IN /\ C15_ChatOk(m.chat, p)
       /\ "reply_to_message" \in DOMAIN m => C15_ChatOk(m.reply_to_message.chat, p)

C15_Witness ==
  \E i \in DOMAIN calls :
    LET m == calls[i].update.message
    IN /\ PayloadOf(calls[i].req).f.chatId = Num(0)
       /\ m.chat = [id |-> [nan |-> FALSE, n |-> 0], type |-> "private",
                    first_name |-> <<"A", "n", "a">>]

\* C16: a registration replaces the account's entry whole: the registry holds
\* exactly the handle and the config of the account's latest registration
\* (nothing of an earlier one), and a request with a valid payload for an
\* account whose bot is live is authenticated against the secret of that
\* latest registration alone: with it the update goes to the latest handle,
\* with any other credential (the earlier secret included) the answer is 401
\* and nothing is dispatched.
C16_LatestEntry ==
  \A a \in AccountIds :
    sessions[a].state = "live" =>
      /\ a \in DOMAIN botRegistry /\ botRegistry[a] = sessions[a].bot
      /\ a \in DOMAIN configRegistry /\ configRegistry[a] = sessions[a].config

C16_LatestStep ==
  \A r \in Reqs :
    (ContinueStep(r) /\ ValidFor(r) /\ SessionOf(AccountOf(r)).state = "live") =>
      IF h[r].token.s = SessionOf(AccountOf(r)).secret
      THEN /\ Len(calls') = Len(calls) + 1
           /\ calls'[Len(calls')].req = r
           /\ calls'[Len(calls')].bot = SessionOf(AccountOf(r)).bot
      ELSE /\ calls' = calls
           /\ res'[r].ended
           /\ res'[r].statusCode = 401

C16_RegisterReplaces == [](C16_LatestEntry) /\ [][C16_LatestStep]_vars

C16_Witness ==
  \E i \in DOMAIN calls : \E r \in Reqs :
    /\ calls[i].bot = "bot1"
    /\ h[calls[i].req].token = Str(Secret1)
    /\ AccountOf(calls[i].req) = DefaultAccountId
    /\ r # calls[i].req
    /\ h[r].pc = "done"
    /\ h[r].body.ok
    /\ AccountOf(r) = DefaultAccountId
    /\ h[r].token = Str(Secret1)
    /\ h[r].bot = "bot2"
    /\ h[r].config = Config(Secret2, 20)
    /\ res[r].statusCode = 401
    /\ CallsOf(r) = {}
    /\ sessions[DefaultAccountId].state = "live"
    /\ sessions[DefaultAccountId].bot = "bot2"

\* C17: in every state, hence whenever a request reads the registry, an
\* account has a handle exactly when it has a config and the two are those of
\* one registration (the account's latest); and what a request has read is
\* either no entry or the handle and config of one registration.
C17_NoPartialEntry ==
  /\ DOMAIN botRegistry = DOMAIN configRegistry
  /\ \A a \in DOMAIN botRegistry :
       /\ <<botRegistry[a], configRegistry[a]>> \in Registrations
       /\ SessionOf(a).state = "live"
       /\ botRegistry[a] = SessionOf(a).bot
       /\ configRegistry[a] = SessionOf(a).config
  /\ \A r \in Reqs :
       \/ h[r].bot = "undefined" /\ h[r].config = EmptyObject
       \/ <<h[r].bot, h[r].config>> \in Registrations

C17_Witness ==
  \E r \in Reqs :
    /\ h[r].pc = "dispatching"
    /\ AccountOf(r) = DefaultAccountId
    /\ h[r].bot = "bot1"
    /\ h[r].config.secret = Secret1
    /\ sessions[DefaultAccountId].state = "live"
    /\ botRegistry[DefaultAccountId] = "bot2"
    /\ configRegistry[DefaultAccountId] = Config(Secret2, 20)

\* The externalMessages of the resolved account's own config, and those of the
\* channel
OwnSettings ==
  IF resolved.accountId \in DOMAIN loadedConfig.telegram.accounts
  THEN loadedConfig.telegram.accounts[resolved.accountId]
  ELSE NotSettings(Undef)

ChannelWideSettings == loadedConfig.telegram.externalMessages

\* The settings the account goes by: its own when it has any, else the channel's
SelectedSettings ==
  IF OwnSettings.t \in {"undefined", "null"} THEN ChannelWideSettings ELSE OwnSettings

\* e is an object whose secret is a string with a character that is no
\* white space
HasSecret(e) ==
  /\ e.t = "object"
  /\ e.f.secret.t = "string"
  /\ \E i \in 1..Len(e.f.secret.s) : e.f.secret.s[i] \notin WhiteSpace

\* C18: resolveExternalMessagesConfig returns null whenever the settings it
\* selects for the account have no secret that is a string with something but
\* white space in it, whatever else the configuration holds; the secret of
\* every config it returns is non-empty (and trimmed).
C18_NoSecretNoConfig ==
  resolved.called =>
    /\ ~HasSecret(SelectedSettings) => resolved.result = NullConfig
    /\ ~resolved.result.null =>
         /\ resolved.result.secret # <<>>
         /\ resolved.result.secret[1] \notin WhiteSpace
         /\ resolved.result.secret[Len(resolved.result.secret)] \notin WhiteSpace

C18_Witness ==
  /\ resolved.called
  /\ resolved.accountId = WorkAccountId
  /\ OwnSettings = Settings(Str(<<>>), Num(10))
  /\ ChannelWideSettings = Settings(Str(Key2), Num(20))
  /\ loadedConfig.telegram.historyLimit = Num(30)
  /\ resolved.result = NullConfig

\* C19: the account's own externalMessages, when it has any, are used whole
\* in place of the channel's (the secret and the numeric historyLimit come
\* from the same settings, and own settings without a secret disable the
\* bridge whatever the channel's hold); the historyLimit is the numeric one of
\* the settings used, else the channel's historyLimit, else the group chat
\* historyLimit, else 50.
C19_Precedence ==
  resolved.called =>
    /\ resolved.result.null <=> ~HasSecret(SelectedSettings)
    /\ ~resolved.result.null =>
         /\ resolved.result.secret = Trim(SelectedSettings.f.secret.s)
         /\ resolved.result.historyLimit =
              IF SelectedSettings.f.historyLimit.t = "number"
              THEN SelectedSettings.f.historyLimit
              ELSE IF loadedConfig.telegram.historyLimit.t \notin {"undefined", "null"}
              THEN loadedConfig.telegram.historyLimit
              ELSE IF loadedConfig.groupChatHistoryLimit.t \notin {"undefined", "null"}
              THEN loadedConfig.groupChatHistoryLimit
              ELSE Num(50)

C19_Witness ==
  /\ resolved.called
  /\ resolved.accountId = WorkAccountId
  /\ OwnSettings = Settings(Str(<<" ">> \o Key1 \o <<" ">>), Str(<<"1", "0">>))
  /\ ChannelWideSettings = Settings(Str(Key2), Num(20))
  /\ loadedConfig.telegram.historyLimit = Null
  /\ loadedConfig.groupChatHistoryLimit = Num(40)
  /\ resolved.result = ResolvedConfig(Key1, Num(40))

\* C20: every response written with status 400, 401, 405, 500 or 503 has a
\* JSON body {ok: false, error}, and every response written with status 200
\* has a JSON body {ok: true, updateId, messageId, chatId}.
C20_ResponseForms ==
  \A r \in Reqs :
    res[r].ended =>
      /\ res[r].statusCode \in {200, 400, 401, 405, 500, 503}
      /\ res[r].contentType = "application/json; charset=utf-8"
      /\ IF res[r].statusCode = 200
         THEN /\ DOMAIN res[r].json = {"ok", "updateId", "messageId", "chatId"}
              /\ res[r].json.ok = TRUE
         ELSE /\ DOMAIN res[r].json = {"ok", "error"}
              /\ res[r].json.ok = FALSE

\* C21 (as stated): the secret a request is checked against is the one the
\* configuration holds for its account at the time of the request, read
\* through loadConfig by the request itself.
C21_ConfigAtRequestTime ==
  [][\A r \in Reqs :
       (ContinueStep(r) /\ ValidFor(r) /\ h'[r].config # EmptyObject) =>
         LET now == resolveExternalMessagesConfig(AccountOf(r), loadedConfig)
         IN /\ ~now.null
            /\ h'[r].config.secret = now.secret]_vars

\* C21 (amended): the bridge keeps the config passed at registration in its
\* registry until the bot stops, and a request is checked against the secret
\* of that registered config, whatever loadConfig returns at the time of the
\* request; handling a request makes no resolveExternalMessagesConfig call
\* (the one place that consults loadConfig, once per call).
C21_RegisteredStep ==
  \A r \in Reqs :
    (ContinueStep(r) /\ ValidFor(r) /\ SessionOf(AccountOf(r)).state = "live") =>
      /\ h'[r].config = SessionOf(AccountOf(r)).config
      /\ h'[r].pc = "dispatching" <=>
           h[r].token.s = SessionOf(AccountOf(r)).config.secret
      /\ h'[r].pc # "dispatching" => res'[r].statusCode = 401
      /\ resolved' = resolved
      /\ loadedConfig' = loadedConfig

C21_SecretOfRegistration == [][C21_RegisteredStep]_vars

C21_Witness ==
  \E r \in Reqs :
    /\ h[r].pc = "done"
    /\ res[r].statusCode = 200
    /\ h[r].token = Str(Key1)
    /\ h[r].config.secret = Key1
    /\ CallsOf(r) # {}
    /\ ~resolveExternalMessagesConfig(AccountOf(r), loadedConfig).null
    /\ resolveExternalMessagesConfig(AccountOf(r), loadedConfig).secret = Key2
    /\ rd[r].chunks > 0

\* C22: resolveExtraParams returns the params of the entry whose key is
\* exactly "<provider>/<modelId>" when the model defaults have such an entry,
\* and undefined when there is no configuration or no entry under that very
\* key (an entry whose key is a prefix of it, or shares its provider, does not
\* count).
C22_ExactKey ==
  extraCall.called =>
    LET key == extraCall.provider \o <<"/">> \o extraCall.modelId
        models == extraCall.cfg.models
    IN IF extraCall.cfg.defined /\ (\E k \in DOMAIN models : k = key)
       THEN extraCall.result = models[key]
       ELSE ~extraCall.result.given

C22_Witness ==
  /\ extraCall.called
  /\ extraCall.provider = <<"openai">>
  /\ extraCall.modelId = <<"gpt-4", ".1-mini">>
  /\ extraCall.cfg.defined
  /\ DOMAIN extraCall.cfg.models = {<<"openai", "/", "gpt-4">>}
  /\ extraCall.cfg.models[<<"openai", "/", "gpt-4">>].given
  /\ ~extraCall.result.given

\* C23: a parsed body is accepted by validatePayload exactly when it is an
\* object whose chatId and messageId are neither missing nor null, whose
\* senderName is a string with something but white space in it, whose text is
\* a string (possibly empty) and whose timestamp is a number; every other
\* body gets the one 400 answer that names the required fields.
C23_Acceptable(v) ==
  /\ v.t = "object"
  /\ v.f.chatId.t \notin {"undefined", "null"}
  /\ v.f.messageId.t \notin {"undefined", "null"}
  /\ v.f.senderName.t = "string"
  /\ \E i \in 1..Len(v.f.senderName.s) : v.f.senderName.s[i] \notin WhiteSpace
  /\ v.f.text.t = "string"
  /\ v.f.timestamp.t = "number"

C23_InvalidAnswer ==
  [ended |-> TRUE, statusCode |-> 400, allow |-> "",
   contentType |-> "application/json; charset=utf-8", text |-> "",
   json |-> [ok |-> FALSE,
             error |-> <<Lit("Invalid payload: required fields are chatId, messageId, senderName, text, timestamp")>>]]

C23_ValidatorRule ==
  \A r \in Reqs :
    (PastBody(r) /\ h[r].body.ok) =>
      /\ validatePayload(PayloadOf(r)) <=> C23_Acceptable(PayloadOf(r))
      /\ IF C23_Acceptable(PayloadOf(r))
         THEN ~(res[r].ended /\ res[r].statusCode = 400)
         ELSE res[r] = C23_InvalidAnswer /\ CallsOf(r) = {}

C23_Witness ==
  \E r \in Reqs :
    /\ h[r].pc = "done"
    /\ h[r].body.ok
    /\ PayloadOf(r).f.text = Str(<<>>)
    /\ PayloadOf(r).f.chatId = Num(-5001)
    /\ res[r].statusCode = 200
    /\ CallsOf(r) # {}

\* C24: in every update handed to handleUpdate, chat.id and message_id are
\* numbers proper (never NaN), for every payload validatePayload accepts.
C24_NumericIds ==
  \A i \in DOMAIN calls :
    /\ ~calls[i].update.message.chat.id.nan
    /\ ~calls[i].update.message.message_id.nan

\* C25: in every dispatched update, from.username is there only when the
\* payload has a senderUsername (and is then that non-empty string, never an
\* empty one), reply_to_message is there only when the payload has a
\* replyToMessageId (and is then the number of that id, the payload's
\* timestamp and the chat of the message itself), and message_thread_id is
\* there only when the payload has a topicId (and is then that topicId); a
\* non-empty senderUsername and a non-zero replyToMessageId or topicId are
\* attached.
C25_OptionalParts ==
  \A i \in DOMAIN calls :
    LET p == PayloadOf(calls[i].req).f
        m == calls[i].update.message
    IN /\ "username" \in DOMAIN m.from =>
            /\ p.senderUsername.t # "undefined"
            /\ m.from.username = p.senderUsername
            /\ m.from.username # Str(<<>>)
       /\ "reply_to_message" \in DOMAIN m =>
            /\ p.replyToMessageId.t # "undefined"
            /\ C14_Numeric(p.replyToMessageId)
            /\ m.reply_to_message =
                 [message_id |-> C14_NumberOf(p.replyToMessageId),
                  date |-> p.timestamp, chat |-> m.chat]
       /\ "message_thread_id" \in DOMAIN m =>
            /\ p.topicId.t # "undefined"
            /\ m.message_thread_id = p.topicId
       /\ (p.senderUsername.t = "string" /\ p.senderUsername.s # <<>>) =>
            "username" \in DOMAIN m.from
       /\ (p.replyToMessageId.t = "string" /\ p.replyToMessageId.s # <<>>) =>
            "reply_to_message" \in DOMAIN m
       /\ (p.replyToMessageId.t = "number" /\ p.replyToMessageId.n # 0) =>
            "reply_to_message" \in DOMAIN m
       /\ (p.topicId.t = "number" /\ p.topicId.n # 0) =>
            "message_thread_id" \in DOMAIN m

C25_Witness ==
  \E i \in DOMAIN calls :
    LET m == calls[i].update.message
    IN /\ PayloadOf(calls[i].req).f.replyToMessageId = Str(<<"4", "1">>)
       /\ m.reply_to_message.message_id = [nan |-> FALSE, n |-> 41]
       /\ m.reply_to_message.chat.type = "supergroup"
       /\ DOMAIN m = {"message_id", "date", "chat", "from", "text", "reply_to_message"}
       /\ DOMAIN m.from = {"id", "is_bot", "first_name"}

\* C26: a call of registerGroupHistories or unregisterGroupHistories leaves
\* both registries as they were; a request for an account that was
\* registered through registerGroupHistories only is answered 503 when it
\* reaches the lookup, and is never dispatched; an account whose bot is live
\* is still registered after unregisterGroupHistories.
C26_LegacyStep == legacyCalls' # legacyCalls

C26_OnlyLegacy(a) ==
  SessionOf(a).state = "never" /\ a \in DOMAIN legacyCalls
    /\ legacyCalls[a] = "register"

C26_LegacyNoOps ==
  /\ [][C26_LegacyStep =>
          /\ botRegistry' = botRegistry
          /\ configRegistry' = configRegistry]_vars
  /\ [][\A r \in Reqs :
          (ContinueStep(r) /\ ValidFor(r) /\ C26_OnlyLegacy(AccountOf(r))) =>
            /\ res'[r].statusCode = 503
            /\ calls' = calls]_vars
  /\ [](\A a \in AccountIds :
          (legacyCalls[a] = "unregister" /\ sessions[a].state = "live") =>
            /\ a \in DOMAIN botRegistry /\ a \in DOMAIN configRegistry
            /\ botRegistry[a] = sessions[a].bot
            /\ configRegistry[a] = sessions[a].config)

C26_Witness ==
  /\ legacyCalls[WorkAccountId] = "register"
  /\ sessions[WorkAccountId].state = "never"
  /\ WorkAccountId \notin DOMAIN botRegistry
  /\ h[1].pc = "done" /\ ValidFor(1) /\ AccountOf(1) = WorkAccountId
  /\ res[1].statusCode = 503
  /\ legacyCalls[DefaultAccountId] = "unregister"
  /\ sessions[DefaultAccountId].state = "live"
  /\ DefaultAccountId \in DOMAIN botRegistry

\* C27: no step of a request's handling (arrival, body events, the code after
\* the body read, the settling of handleUpdate, the code after the await)
\* changes botRegistry or configRegistry; such a step leaves the counter as it
\* was unless it starts a handleUpdate call, and then the counter goes down by
\* exactly one; a step that answers 400, 401, 405 or 503 or declines the
\* request leaves registries, counter and call log as they were; no other
\* step (a bot starting or stopping) changes the counter.
C27_RequestStep ==
  req' # req \/ rd' # rd \/ h' # h \/ res' # res \/ calls' # calls

C27_Builds(r) == ContinueStep(r) /\ h'[r].pc = "dispatching"

C27_Rejects(r) ==
  \/ res'[r] # res[r] /\ res'[r].statusCode \in {400, 401, 405, 503}
  \/ h'[r] # h[r] /\ h'[r].ret = "false"

C27_HandlingFrame ==
  /\ [][C27_RequestStep =>
          /\ botRegistry' = botRegistry
          /\ configRegistry' = configRegistry
          /\ syntheticUpdateCounter' =
               IF \E r \in Reqs : C27_Builds(r)
               THEN syntheticUpdateCounter - 1
               ELSE syntheticUpdateCounter]_vars
  /\ [][\A r \in Reqs : C27_Rejects(r) =>
          /\ ~C27_Builds(r)
          /\ UNCHANGED <<botRegistry, configRegistry, syntheticUpdateCounter,
                         calls>>]_vars
  /\ [][syntheticUpdateCounter' # syntheticUpdateCounter =>
          \E r \in Reqs : C27_Builds(r) /\ Len(calls') = Len(calls) + 1]_vars

C27_Witness ==
  /\ h[1].pc = "done"
  /\ res[1].statusCode = 401
  /\ ValidFor(1)
  /\ SessionOf(AccountOf(1)).state = "live"
  /\ botRegistry[AccountOf(1)] = SessionOf(AccountOf(1)).bot
  /\ configRegistry[AccountOf(1)] = SessionOf(AccountOf(1)).config
  /\ syntheticUpdateCounter = -1
  /\ calls = <<>>

\* C28: with several requests in flight, the step that starts a handleUpdate
\* call is the step that takes the identifier: the call's update_id is the
\* counter just before the step, the same step moves the counter down by one,
\* and the counter never moves in a step that starts no call; so a call that
\* started earlier has a strictly greater update_id than any call that
\* started later, whatever the accounts and the order of the requests.
C28_Started == Len(calls') > Len(calls)

C28_AllocateAndDispatchAtomic ==
  /\ [][C28_Started =>
          LET c == calls'[Len(calls')] IN
            /\ calls' = Append(calls, c)
            /\ c.update.update_id = syntheticUpdateCounter
            /\ syntheticUpdateCounter' = syntheticUpdateCounter - 1
            /\ h[c.req].pc = "bodyRead" /\ h'[c.req].pc = "dispatching"
            /\ h'[c.req].syntheticUpdate = c.update
            /\ \A i \in DOMAIN calls :
                 calls[i].update.update_id > c.update.update_id]_vars
  /\ [][~C28_Started => syntheticUpdateCounter' = syntheticUpdateCounter]_vars

C28_Witness ==
  /\ Len(calls) = 2
  /\ calls[1].req = 2 /\ calls[2].req = 1
  /\ calls[1].state = "pending" /\ calls[2].state = "pending"
  /\ calls[1].update.update_id = -1
  /\ calls[2].update.update_id = -2
  /\ AccountOf(1) # AccountOf(2)

\* C29: the historyLimit of every config that resolveExternalMessagesConfig
\* returns is a number greater than zero, whatever the limits in the loaded
\* configuration are.
C29_PositiveLimit ==
  (resolved.called /\ ~resolved.result.null) =>
    /\ resolved.result.historyLimit.t = "number"
    /\ resolved.result.historyLimit.n > 0

====
